---- MODULE Spec2Model ----
(***************************************************************************)
(* CosmicMapped (src/shell/element/mod.rs): the mapped-window handle that  *)
(* wraps either a single CosmicWindow or a CosmicStack of tabs, together   *)
(* with its auxiliary fields, the protocol state of its toplevels and the  *)
(* events it forwards.                                                     *)
(***************************************************************************)
EXTENDS Integers, Sequences, FiniteSets, TLC

\* ------------------------------------------------------------------ bounds
\* Largest number of tabs of a stack.
MaxTabs == 3
\* Declared sizes range over 0..MaxDim on each axis (0 = not declared).
MaxDim == 2
\* At most this many size components are declared non-zero over all toplevels.
MaxDeclared == 3
\* Seats are 1..MaxSeats.
MaxSeats == 2
\* Pointer locations are 1..MaxLocations: the code stores and returns them whole.
MaxLocations == 2
\* At most this many state-changing protocol operations in one behaviour.
MaxOps == 6
\* Surfaces other than the toplevels' own: MaxTabs + 1 .. MaxTabs + MaxExtraSurfaces.
MaxExtraSurfaces == 2
\* A handler called back from a call it forwarded nests at most this deep.
MaxDepth == 2
\* Where every operation of the file is exercised: at most this many
\* state-changing protocol operations in one behaviour.
MaxCoreOps == 2
\* An attached decoration header is 1..MaxHeader high.
MaxHeader == 2
\* Where the order of the tabs is varied: the clients declare at most this many
\* non-zero size components.
MaxReordered == 2
\* Where handles are cloned: at most this many writes through them.
MaxSharedWrites == 2

\* --------------------------------------------------------------- universes
Toplevels == 1..MaxTabs
Seats == 1..MaxSeats
Locations == 1..MaxLocations
\* The xdg_toplevel states this file sets or reads.
XdgState ==
    {"Resizing", "Fullscreen", "Maximized", "Activated",
     "TiledLeft", "TiledRight", "TiledTop", "TiledBottom"}
\* The four states toggled for every constituent.
SharedStates == {"Resizing", "Fullscreen", "Maximized", "Activated"}
\* wl_surfaces: toplevel t's own surface is t; the others are subsurfaces,
\* popups, or surfaces of other clients.
Surfaces == 1..(MaxTabs + MaxExtraSurfaces)
ExtraSurfaces == Surfaces \ Toplevels
\* The holders of a handle to the mapped window.
Threads == {"render", "input", "layout"}
\* The Arc<Mutex<..>> fields of CosmicMapped, one lock each.
Locks == {"last_cursor_position", "tiling_node_id", "last_geometry",
          "resize_state", "debug"}

Range(s) == {s[i] : i \in DOMAIN s}
Max2(a, b) == IF a >= b THEN a ELSE b
Min2(a, b) == IF a <= b THEN a ELSE b

\* Option<T>: <<>> is None, <<x>> is Some(x).
None == <<>>
Some(x) == <<x>>

VARIABLES
    kind,                  \* CosmicMappedInternal: "Window" or "Stack"
    tabs,                  \* the constituent toplevels, in tab order
    active,                \* the stack's active tab (the sole window of a Window)
    header,                \* the decoration header's height, if one is attached
    attrs_min_size,        \* XdgToplevelSurfaceRoleAttributes.min_size per toplevel
    attrs_max_size,        \* XdgToplevelSurfaceRoleAttributes.max_size per toplevel
    geometry,              \* Window::geometry().size per toplevel
    pending,               \* pending (requested) states per toplevel
    configured,            \* states of the configure in flight per toplevel, if any
    current,               \* current (acknowledged) states per toplevel
    last_cursor_position,  \* seat id -> last pointer location
    tiling_node_id,
    last_geometry,
    resize_state,
    debug,
    surface_children,      \* wl_surface -> its subsurfaces, in stacking order
    popups,                \* toplevel -> the popups registered for its surface
    frames,                \* handle holder -> its running operations, innermost last
    owner,                 \* field lock -> the handle holder that holds it, if any
    handles,               \* handle holder -> the CosmicMapped value it holds, if any
    cells,                 \* the Arc allocations of later conversions, by number
    inside,                \* seats whose pointer entered and has not left (history)
    outbox,                \* what the last operation sent or forwarded
    lastOp,                \* the last operation, its arguments and its result
    ops                    \* state-changing protocol operations so far

element == <<kind, tabs, active, header>>
sizes == <<attrs_min_size, attrs_max_size, geometry>>
xdg == <<pending, configured, current>>
aux == <<tiling_node_id, last_geometry, resize_state, debug>>
pointer == <<last_cursor_position, inside>>
surfaces == <<surface_children, popups>>
threads == <<frames, owner>>
sharing == <<handles, cells>>
env == <<surfaces, threads, sharing>>
vars == <<element, sizes, xdg, aux, pointer, env, outbox, lastOp, ops>>

\* ------------------------------------------------------------- conversions
\* impl From<CosmicWindow> / From<CosmicStack> for CosmicMapped.
\* The associated data both conversions build: an empty HashMap and None
\* behind every Mutex.
ConvertedFields_GeometryKept ==
    [last_cursor_position |-> << >>, tiling_node_id |-> None,
     last_geometry |-> Some("set"), resize_state |-> None, debug |-> None]
ConvertedFields ==
    [last_cursor_position |-> << >>, tiling_node_id |-> None,
     last_geometry |-> None, resize_state |-> None, debug |-> None]

\* The handle a conversion of element e returns: origin numbers the conversion
\* (history), and cell names, for each Arc field, the allocation it points to.
\* Allocation 0 is the one whose contents the variables last_cursor_position,
\* tiling_node_id, last_geometry, resize_state and debug hold.
ConvertedHandle(e, n) ==
    [element |-> e, origin |-> n, cell |-> [f \in Locks |-> n]]

\* The holder the converted handle is handed to.
Mapper == "layout"
\* What a handle may wrap: the mapped element, numbered 1, or another one.
Elements == {1, 2}

FromElement(k, n, a, hd) ==
    /\ handles = [th \in Threads |-> IF th = Mapper THEN Some(ConvertedHandle(1, 0)) ELSE None]
    /\ cells = <<>>
    /\ kind = k
    /\ tabs = [i \in 1..n |-> i]
    /\ active = a
    /\ header = hd
    /\ last_cursor_position = ConvertedFields.last_cursor_position
    /\ tiling_node_id = ConvertedFields.tiling_node_id
    /\ last_geometry = ConvertedFields.last_geometry
    /\ resize_state = ConvertedFields.resize_state
    /\ debug = ConvertedFields.debug

\* A mapped window converted from a bare window or from a stack of 1..MaxTabs
\* tabs, its header one of headers.
Mapped(headers) ==
    \E hd \in headers :
        \/ FromElement("Window", 1, 1, hd)
        \/ \E n \in 1..MaxTabs : \E a \in 1..n : FromElement("Stack", n, a, hd)

\* No header, or one of any height.
Headers == {None} \cup {Some(h) : h \in 1..MaxHeader}

\* Toplevels whose clients declared no size: both attributes are (0, 0).
UndeclaredSizes ==
    /\ attrs_min_size = [t \in Toplevels |-> [w |-> 0, h |-> 0]]
    /\ attrs_max_size = [t \in Toplevels |-> [w |-> 0, h |-> 0]]

\* Windows whose geometry is one by one.
UnitGeometry == geometry = [t \in Toplevels |-> [w |-> 1, h |-> 1]]

\* Toplevels with no state set and no configure in flight.
FreshStates ==
    /\ pending = [t \in Toplevels |-> {}]
    /\ configured = [t \in Toplevels |-> None]
    /\ current = [t \in Toplevels |-> {}]

\* Toplevels with neither subsurfaces nor popups.
BareSurfaces ==
    /\ surface_children = [s \in Surfaces |-> <<>>]
    /\ popups = [t \in Toplevels |-> {}]

\* No event delivered, no operation called yet and none running.
Idle ==
    /\ frames = [th \in Threads |-> <<>>]
    /\ owner = [l \in Locks |-> None]
    /\ inside = {}
    /\ outbox = {}
    /\ lastOp = [op |-> "from"]
    /\ ops = 0

Init ==
    /\ Mapped({None})
    /\ UndeclaredSizes
    /\ FreshStates
    /\ UnitGeometry
    /\ BareSurfaces
    /\ Idle

\* ------------------------------------------------------- variant dispatch
\* CosmicStack::windows(): every tab, in order.
StackWindows == tabs
\* CosmicStack::active().
StackActive == active
\* CosmicMapped::active_window.
active_window == IF kind = "Stack" THEN StackActive ELSE tabs[1]
\* The iterator the setters loop over: every tab, or the sole window.
Constituents == IF kind = "Stack" THEN StackWindows ELSE <<tabs[1]>>

\* ------------------------------------------------- size constraint aggregation
\* attrs.min_size / attrs.max_size of each window of ws, in order.
MinSizesOf(ws) == [i \in DOMAIN ws |-> attrs_min_size[ws[i]]]
MaxSizesOf(ws) == [i \in DOMAIN ws |-> attrs_max_size[ws[i]]]

\* One step of min_size's fold: (None, x) => Some(x), else the component-wise max.
MinFoldStep(min_size, win_min_size) ==
    IF min_size = None THEN Some(win_min_size)
    ELSE Some([w |-> Max2(min_size[1].w, win_min_size.w),
               h |-> Max2(min_size[1].h, win_min_size.h)])

\* Iterator::fold of MinFoldStep over the windows' declared minimums.
RECURSIVE MinFold(_, _)
MinFold(acc, mins) ==
    IF mins = <<>> THEN acc
    ELSE MinFold(MinFoldStep(acc, Head(mins)), Tail(mins))

\* One axis of max_size's fold: 0 on either side means unconstrained there.
MaxFoldAxis_PlainMin(max1, max2) == Min2(max1, max2)
MaxFoldAxis_FirstConstrained(max1, max2) == IF max1 = 0 THEN max2 ELSE max1
MaxFoldAxis(max1, max2) ==
    IF max1 = 0 THEN max2 ELSE IF max2 = 0 THEN max1 ELSE Min2(max1, max2)

\* One step of max_size's fold.
MaxFoldStep(max_size, win_max_size) ==
    IF max_size = None THEN Some(win_max_size)
    ELSE Some([w |-> MaxFoldAxis(max_size[1].w, win_max_size.w),
               h |-> MaxFoldAxis(max_size[1].h, win_max_size.h)])

\* Iterator::fold of MaxFoldStep over the windows' declared maximums.
RECURSIVE MaxFold(_, _)
MaxFold(acc, maxs) ==
    IF maxs = <<>> THEN acc
    ELSE MaxFold(MaxFoldStep(acc, Head(maxs)), Tail(maxs))

\* A returned value, or the panic that ended the call.
Ret(v) == [panic |-> FALSE, val |-> v]
Panic == [panic |-> TRUE]

\* min_size, Stack arm, on the tabs' declared minimums: the fold, then
\* expect("Empty stack?").
StackMinSize_LastTab(mins) ==
    IF mins = <<>> THEN Panic ELSE Ret(mins[Len(mins)])
StackMinSize(mins) ==
    LET folded == MinFold(None, mins)
    IN  IF folded = None THEN Panic ELSE Ret(folded[1])

\* min_size, Window arm: attrs.min_size of the sole window.
WindowMinSize == Ret(attrs_min_size[tabs[1]])

\* CosmicMapped::min_size.
min_size ==
    IF kind = "Stack" THEN StackMinSize(MinSizesOf(StackWindows)) ELSE WindowMinSize

\* The match that ends max_size's Stack arm: no tab gives (0, 0), else the
\* folded maximum is raised to the minimum on each axis.
MaxClamp_Unclamped(theoretical_max, min) ==
    IF theoretical_max = None THEN [w |-> 0, h |-> 0] ELSE theoretical_max[1]
MaxClamp_ZeroKept(theoretical_max, min) ==
    IF theoretical_max = None THEN [w |-> 0, h |-> 0]
    ELSE [w |-> IF theoretical_max[1].w = 0 THEN 0
                ELSE Max2(theoretical_max[1].w, min.w),
          h |-> IF theoretical_max[1].h = 0 THEN 0
                ELSE Max2(theoretical_max[1].h, min.h)]
MaxClamp(theoretical_max, min) ==
    IF theoretical_max = None THEN [w |-> 0, h |-> 0]
    ELSE [w |-> Max2(theoretical_max[1].w, min.w),
          h |-> Max2(theoretical_max[1].h, min.h)]

\* max_size, Stack arm, on the tabs' declared sizes: self.min_size() is called
\* before the match on theoretical_max, so its panic ends max_size too.
StackMaxSize_MatchFirst(mins, maxs) ==
    IF MaxFold(None, maxs) = None THEN Ret([w |-> 0, h |-> 0])
    ELSE Ret(MaxClamp(MaxFold(None, maxs), StackMinSize(mins).val))
StackMaxSize(mins, maxs) ==
    LET theoretical_max == MaxFold(None, maxs)
        min == StackMinSize(mins)
    IN  IF min.panic THEN Panic ELSE Ret(MaxClamp(theoretical_max, min.val))

\* max_size, Window arm: attrs.max_size of the sole window.
WindowMaxSize_Clamped ==
    Ret(MaxClamp(Some(attrs_max_size[tabs[1]]), attrs_min_size[tabs[1]]))
WindowMaxSize == Ret(attrs_max_size[tabs[1]])

\* CosmicMapped::max_size.
max_size ==
    IF kind = "Stack"
    THEN StackMaxSize(MinSizesOf(StackWindows), MaxSizesOf(StackWindows))
    ELSE WindowMaxSize

\* The size components a client can declare: (toplevel, attribute, axis).
SizeSlots == Toplevels \X {"min", "max"} \X {"w", "h"}

\* The declared sizes that set the slots of D to the values of f and leave the
\* others at 0, the value of an attribute the client never set.
DeclaredSize(D, f, t, attr) ==
    [w |-> IF <<t, attr, "w">> \in D THEN f[<<t, attr, "w">>] ELSE 0,
     h |-> IF <<t, attr, "h">> \in D THEN f[<<t, attr, "h">>] ELSE 0]

\* Toplevels whose clients declared at most MaxDeclared non-zero size components
\* before the element was mapped.
DeclaredToplevels ==
    \E D \in SUBSET SizeSlots :
        /\ Cardinality(D) <= MaxDeclared
        /\ \A d \in D : d[1] \in Range(tabs)
        /\ \E f \in [D -> 1..MaxDim] :
            /\ attrs_min_size = [t \in Toplevels |-> DeclaredSize(D, f, t, "min")]
            /\ attrs_max_size = [t \in Toplevels |-> DeclaredSize(D, f, t, "max")]

\* A call of min_size(): reads only.
CallMinSize ==
    /\ lastOp' = [op |-> "min_size", ret |-> min_size]
    /\ outbox' = {}
    /\ UNCHANGED <<env, element, sizes, xdg, aux, pointer, ops>>

\* A call of max_size(): reads only.
CallMaxSize ==
    /\ lastOp' = [op |-> "max_size", ret |-> max_size]
    /\ outbox' = {}
    /\ UNCHANGED <<env, element, sizes, xdg, aux, pointer, ops>>

NextSize ==
    \/ CallMinSize
    \/ CallMaxSize

\* A mapped window over toplevels with declared sizes, queried for its sizes.
InitSize ==
    /\ Mapped({None})
    /\ DeclaredToplevels
    /\ FreshStates
    /\ UnitGeometry
    /\ BareSurfaces
    /\ Idle

SpecSize == InitSize /\ [][NextSize]_vars

\* Toplevels of which at most one declared one non-zero size component.
OneDeclared ==
    \E D \in SUBSET SizeSlots :
        /\ Cardinality(D) <= 1
        /\ \A d \in D : d[1] \in Range(tabs)
        /\ \E f \in [D -> 1..MaxDim] :
            /\ attrs_min_size = [t \in Toplevels |-> DeclaredSize(D, f, t, "min")]
            /\ attrs_max_size = [t \in Toplevels |-> DeclaredSize(D, f, t, "max")]

\* A mapped window as before, or one over a stack that holds no tab: the size
\* queries do not ask whether there is one.
InitSizeEmpty ==
    /\ Mapped({None}) \/ FromElement("Stack", 0, 1, None)
    /\ OneDeclared
    /\ FreshStates
    /\ UnitGeometry
    /\ BareSurfaces
    /\ Idle

\* The size queries on stacks of any number of tabs, none included.
SpecSizeEmpty == InitSizeEmpty /\ [][NextSize]_vars

\* Toplevels whose clients declared at most MaxReordered non-zero size components.
FewDeclared ==
    \E D \in SUBSET SizeSlots :
        /\ Cardinality(D) <= MaxReordered
        /\ \A d \in D : d[1] \in Range(tabs)
        /\ \E f \in [D -> 1..MaxDim] :
            /\ attrs_min_size = [t \in Toplevels |-> DeclaredSize(D, f, t, "min")]
            /\ attrs_max_size = [t \in Toplevels |-> DeclaredSize(D, f, t, "max")]

\* A mapped stack of one to MaxTabs tabs, any of them active, queried for its
\* sizes.
InitSizeStack ==
    /\ \E n \in 1..MaxTabs : \E a \in 1..n : FromElement("Stack", n, a, None)
    /\ FewDeclared
    /\ FreshStates
    /\ UnitGeometry
    /\ BareSurfaces
    /\ Idle

SpecSizeStack == InitSizeStack /\ [][NextSize]_vars

\* ------------------------------------------------ protocol state synchronization
\* ToplevelSurface::with_pending_state(|state| state.states.set(x) / unset(x)) on
\* every toplevel of ws.
WithPendingState_ActiveOnly(ws, x, on) ==
    [t \in Toplevels |->
        IF t = active_window
        THEN (IF on THEN pending[t] \cup {x} ELSE pending[t] \ {x})
        ELSE pending[t]]
WithPendingState_Replace(ws, x, on) ==
    [t \in Toplevels |->
        IF t \in Range(ws) THEN (IF on THEN {x} ELSE {}) ELSE pending[t]]
WithPendingState(ws, x, on) ==
    [t \in Toplevels |->
        IF t \in Range(ws)
        THEN (IF on THEN pending[t] \cup {x} ELSE pending[t] \ {x})
        ELSE pending[t]]

\* The body shared by set_resizing, set_fullscreen, set_maximized and
\* set_activated: the loop over the constituents that sets or unsets x.
SetShared(name, x, on) ==
    /\ ops < MaxOps
    /\ ops' = ops + 1
    /\ pending' = WithPendingState(Constituents, x, on)
    /\ lastOp' = [op |-> name, arg |-> on]
    /\ outbox' = {}
    /\ UNCHANGED <<env, element, sizes, configured, current, aux, pointer>>

set_resizing(resizing) == SetShared("set_resizing", "Resizing", resizing)
set_fullscreen(fullscreen) == SetShared("set_fullscreen", "Fullscreen", fullscreen)
set_maximized(maximized) == SetShared("set_maximized", "Maximized", maximized)
set_activated(activated) == SetShared("set_activated", "Activated", activated)

\* The window an is_* query reads: the stack's active tab or the sole window.
QueriedWindow_FirstTab == tabs[1]
QueriedWindow == IF kind = "Stack" THEN StackActive ELSE tabs[1]

\* xdg.current_state().states.contains(x)
\*     || xdg.with_pending_state(|states| states.states.contains(x))
IsShared_CurrentOnly(x) == x \in current[QueriedWindow]
IsShared_PendingOnly(x) == x \in pending[QueriedWindow]
IsShared_AnyTab(x) ==
    \E t \in Range(Constituents) : x \in current[t] \/ x \in pending[t]
IsShared(x) ==
    x \in current[QueriedWindow] \/ x \in pending[QueriedWindow]

\* A query: reads only.
Query(name, value) ==
    /\ lastOp' = [op |-> name, ret |-> value]
    /\ outbox' = {}
    /\ UNCHANGED <<env, element, sizes, xdg, aux, pointer, ops>>

is_resizing == Query("is_resizing", IsShared("Resizing"))
is_fullscreen == Query("is_fullscreen", IsShared("Fullscreen"))
is_maximized == Query("is_maximized", IsShared("Maximized"))
is_activated == Query("is_activated", IsShared("Activated"))

\* CosmicMapped::set_tiled: the four tiled states of the sole window; nothing
\* for a Stack.
TiledStates == {"TiledLeft", "TiledRight", "TiledTop", "TiledBottom"}
\* The Option set_tiled's for loop runs over: None for a Stack, the toplevel of
\* the sole window otherwise.
TiledTargets_EveryConstituent == Constituents
TiledTargets == IF kind = "Stack" THEN None ELSE Some(tabs[1])
set_tiled(tiled) ==
    /\ ops < MaxOps
    /\ ops' = ops + 1
    /\ pending' =
          [t \in Toplevels |->
              IF t \in Range(TiledTargets)
              THEN (IF tiled THEN pending[t] \cup TiledStates
                    ELSE pending[t] \ TiledStates)
              ELSE pending[t]]
    /\ lastOp' = [op |-> "set_tiled", arg |-> tiled]
    /\ outbox' = {}
    /\ UNCHANGED <<env, element, sizes, configured, current, aux, pointer>>

\* CosmicMapped::is_tiled: the current state only, and TiledLeft only.
is_tiled_PendingToo == Query("is_tiled", IsShared("TiledLeft"))
is_tiled == Query("is_tiled", "TiledLeft" \in current[QueriedWindow])

\* The state a new configure is compared with: that of the configure in
\* flight, else the acknowledged one.
ServerState(t) == IF configured[t] = None THEN current[t] ELSE configured[t][1]

\* ToplevelSurface::send_configure on every toplevel of ws: a configure carrying
\* the pending state goes out where it differs from the last one sent. One
\* configure per toplevel is kept in flight: a newer one supersedes an older one
\* the client has not acknowledged.
SendConfigure(ws) ==
    [t \in Toplevels |->
        IF t \in Range(ws) /\ pending[t] # ServerState(t)
        THEN Some(pending[t]) ELSE configured[t]]

\* The calls of configure's loop, numbered in the order they are made: one
\* send_configure for each window of ws.
ConfigureCalls_ActiveOnly(ws) ==
    {[to |-> active_window, call |-> "send_configure", nth |-> 1]}
ConfigureCalls(ws) ==
    {[to |-> ws[i], call |-> "send_configure", nth |-> i] : i \in DOMAIN ws}

\* CosmicMapped::configure.
configure ==
    /\ ops < MaxOps
    /\ ops' = ops + 1
    /\ configured' = SendConfigure(Constituents)
    /\ outbox' = ConfigureCalls(Constituents)
    /\ lastOp' = [op |-> "configure"]
    /\ UNCHANGED <<env, element, sizes, pending, current, aux, pointer>>

\* The client of toplevel t acknowledges the configure in flight and commits.
ClientAck(t) ==
    /\ t \in Range(tabs)
    /\ configured[t] # None
    /\ ops < MaxOps
    /\ ops' = ops + 1
    /\ current' = [current EXCEPT ![t] = configured[t][1]]
    /\ configured' = [configured EXCEPT ![t] = None]
    /\ lastOp' = [op |-> "client_ack", window |-> t]
    /\ outbox' = {}
    /\ UNCHANGED <<env, element, sizes, pending, aux, pointer>>

\* The toplevels send_close closes.
CloseTargets_EveryTab == Range(Constituents)
CloseTargets == {QueriedWindow}

\* CosmicMapped::send_close.
send_close ==
    /\ outbox' = {[to |-> t, call |-> "send_close"] : t \in CloseTargets}
    /\ lastOp' = [op |-> "send_close"]
    /\ UNCHANGED <<env, element, sizes, xdg, aux, pointer, ops>>

\* CosmicStack::set_active(window): the tab becomes the active one.
StackSetActive(window) == IF window \in Range(tabs) THEN window ELSE active

\* The active tab after set_active and focus_window: only the Stack arm calls
\* stack.set_active(window), the other arm does nothing.
ActiveAfter_EveryVariant(window) == window
ActiveAfter(window) == IF kind = "Stack" THEN StackSetActive(window) ELSE active

\* CosmicMapped::set_active: only a Stack has an active tab to set.
set_active(window) ==
    /\ ops < MaxOps
    /\ ops' = ops + 1
    /\ active' = ActiveAfter(window)
    /\ lastOp' = [op |-> "set_active", window |-> window]
    /\ outbox' = {}
    /\ UNCHANGED <<env, kind, tabs, header, sizes, xdg, aux, pointer>>

\* CosmicMapped::focus_window: the same match, written out.
focus_window(window) ==
    /\ ops < MaxOps
    /\ ops' = ops + 1
    /\ active' = ActiveAfter(window)
    /\ lastOp' = [op |-> "focus_window", window |-> window]
    /\ outbox' = {}
    /\ UNCHANGED <<env, kind, tabs, header, sizes, xdg, aux, pointer>>

\* CosmicMapped::windows: every tab of a Stack, or the sole window, each with
\* the offset of the content below the header.
HeaderOffset == IF header = None THEN [x |-> 0, y |-> 0] ELSE [x |-> 0, y |-> header[1]]
windows_ActiveOnly == << <<active_window, HeaderOffset>> >>
windows == [i \in DOMAIN Constituents |-> <<Constituents[i], HeaderOffset>>]

\* CosmicMapped::active_window_offset: the size of the active window's
\* geometry, placed below the header if one is attached (map_or(0, height)).
active_window_offset_AtOrigin ==
    [loc |-> [x |-> 0, y |-> 0], size |-> geometry[active_window]]
active_window_offset ==
    [loc |-> [x |-> 0, y |-> IF header = None THEN 0 ELSE header[1]],
     size |-> geometry[active_window]]

\* A call of active_window_offset(): reads only.
CallActiveWindowOffset ==
    /\ lastOp' = [op |-> "active_window_offset", ret |-> active_window_offset]
    /\ outbox' = {}
    /\ UNCHANGED <<env, element, sizes, xdg, aux, pointer, ops>>

\* A call of windows(), run to its end: reads only.
CallWindows ==
    /\ lastOp' = [op |-> "windows", ret |-> windows]
    /\ outbox' = {}
    /\ UNCHANGED <<env, element, sizes, xdg, aux, pointer, ops>>

NextGeometry ==
    \/ CallActiveWindowOffset
    \/ CallWindows

\* Windows of any geometry from one by one to MaxDim by MaxDim.
DrawnGeometry ==
    \E g \in [Range(tabs) -> [w : 1..MaxDim, h : 1..MaxDim]] :
        geometry = [t \in Toplevels |->
                       IF t \in Range(tabs) THEN g[t] ELSE [w |-> 1, h |-> 1]]

InitGeometry ==
    /\ Mapped(Headers)
    /\ UndeclaredSizes
    /\ FreshStates
    /\ DrawnGeometry
    /\ BareSurfaces
    /\ Idle

\* Decorated and bare mapped windows asked for their windows and for the
\* place of the active one.
SpecGeometry == InitGeometry /\ [][NextGeometry]_vars

NextState ==
    \/ \E b \in BOOLEAN : set_resizing(b)
    \/ \E b \in BOOLEAN : set_fullscreen(b)
    \/ \E b \in BOOLEAN : set_maximized(b)
    \/ \E b \in BOOLEAN : set_activated(b)
    \/ \E b \in BOOLEAN : set_tiled(b)
    \/ is_resizing
    \/ is_fullscreen
    \/ is_maximized
    \/ is_activated
    \/ is_tiled
    \/ configure
    \/ \E t \in Toplevels : ClientAck(t)
    \/ send_close
    \/ \E t \in Toplevels : set_active(t)
    \/ \E t \in Toplevels : focus_window(t)

\* The protocol state of a mapped window under the operations of the layout
\* engines and the acknowledgements of the clients.
SpecState == Init /\ [][NextState]_vars

\* ------------------------------------------------- input routing, cursor tracking
\* HashMap::insert(seat.id(), event.location).
MapInsert_Alone(map, seat, location) == [s \in {seat} |-> location]
MapInsert(map, seat, location) ==
    [s \in DOMAIN map \cup {seat} |-> IF s = seat THEN location ELSE map[s]]

\* HashMap::remove(&seat.id()).
MapRemove_Keep(map, seat) == map
MapRemove(map, seat) == [s \in DOMAIN map \ {seat} |-> map[s]]

\* CosmicMapped::cursor_position: HashMap::get(&seat.id()).cloned().
cursor_position(seat) ==
    IF seat \in DOMAIN last_cursor_position
    THEN Some(last_cursor_position[seat]) ELSE None

\* The match on self.element that ends every handler: the event goes to the
\* wrapped CosmicStack or CosmicWindow, which sees the cursor map as it is then.
Forward(event, seat, map) ==
    {[to |-> kind, event |-> event, seat |-> seat,
      cursor |-> IF seat \in DOMAIN map THEN Some(map[seat]) ELSE None]}

\* The cursor map the wrapped element's handler finds: the insert or remove
\* statement comes before the match that forwards.
MapAtForward_ForwardFirst(before, after) == before
MapAtForward(before, after) == after

\* The cursor map after PointerTarget::enter and PointerTarget::motion.
TrackCursor_FirstOnly(seat, location) ==
    IF seat \in DOMAIN last_cursor_position THEN last_cursor_position
    ELSE MapInsert(last_cursor_position, seat, location)
TrackCursor(seat, location) == MapInsert(last_cursor_position, seat, location)

\* PointerTarget::enter.
pointer_enter(seat, location) ==
    /\ last_cursor_position' = TrackCursor(seat, location)
    /\ inside' = inside \cup {seat}
    /\ outbox' = Forward("pointer_enter", seat,
                         MapAtForward(last_cursor_position, last_cursor_position'))
    /\ lastOp' = [op |-> "pointer_enter", seat |-> seat, location |-> location]
    /\ UNCHANGED <<env, element, sizes, xdg, aux, ops>>

\* PointerTarget::motion. The seat's pointer handle delivers motion to the
\* element it has entered, never to another one.
pointer_motion(seat, location) ==
    /\ seat \in inside
    /\ last_cursor_position' = TrackCursor(seat, location)
    /\ outbox' = Forward("pointer_motion", seat,
                         MapAtForward(last_cursor_position, last_cursor_position'))
    /\ lastOp' = [op |-> "pointer_motion", seat |-> seat, location |-> location]
    /\ UNCHANGED <<env, element, sizes, xdg, aux, inside, ops>>

\* PointerTarget::button.
pointer_button(seat) ==
    /\ outbox' = Forward("pointer_button", seat, last_cursor_position)
    /\ lastOp' = [op |-> "pointer_button", seat |-> seat]
    /\ UNCHANGED <<env, element, sizes, xdg, aux, pointer, ops>>

\* PointerTarget::axis.
pointer_axis(seat) ==
    /\ outbox' = Forward("pointer_axis", seat, last_cursor_position)
    /\ lastOp' = [op |-> "pointer_axis", seat |-> seat]
    /\ UNCHANGED <<env, element, sizes, xdg, aux, pointer, ops>>

\* PointerTarget::leave.
pointer_leave(seat) ==
    /\ last_cursor_position' = MapRemove(last_cursor_position, seat)
    /\ inside' = inside \ {seat}
    /\ outbox' = Forward("pointer_leave", seat,
                         MapAtForward(last_cursor_position, last_cursor_position'))
    /\ lastOp' = [op |-> "pointer_leave", seat |-> seat]
    /\ UNCHANGED <<env, element, sizes, xdg, aux, ops>>

\* A call of cursor_position(seat): reads only.
CallCursorPosition(seat) ==
    /\ lastOp' = [op |-> "cursor_position", seat |-> seat, ret |-> cursor_position(seat)]
    /\ outbox' = {}
    /\ UNCHANGED <<env, element, sizes, xdg, aux, pointer, ops>>

\* The windows the wrapped element hands a keyboard event to: a stack its
\* active tab, a window itself.
ElementKeyboardTargets == IF kind = "Stack" THEN {StackActive} ELSE {tabs[1]}

\* The match on self.element that makes up every KeyboardTarget handler: one
\* call of the same handler of the wrapped CosmicStack or CosmicWindow.
ForwardKey_StackUnhandled(event, seat) ==
    IF kind = "Stack" THEN {}
    ELSE {[to |-> kind, event |-> event, seat |-> seat, window |-> tabs[1]]}
ForwardKey(event, seat) ==
    {[to |-> kind, event |-> event, seat |-> seat, window |-> w] :
        w \in ElementKeyboardTargets}

\* A KeyboardTarget handler: forwards and touches nothing.
KeyboardEvent(event, seat) ==
    /\ outbox' = ForwardKey(event, seat)
    /\ lastOp' = [op |-> event, seat |-> seat]
    /\ UNCHANGED <<env, element, sizes, xdg, aux, pointer, ops>>

\* KeyboardTarget::enter, leave, key and modifiers.
keyboard_enter(seat) == KeyboardEvent("keyboard_enter", seat)
keyboard_leave(seat) == KeyboardEvent("keyboard_leave", seat)
keyboard_key(seat) == KeyboardEvent("keyboard_key", seat)
keyboard_modifiers(seat) == KeyboardEvent("keyboard_modifiers", seat)

NextInput ==
    \/ \E seat \in Seats, location \in Locations : pointer_enter(seat, location)
    \/ \E seat \in Seats, location \in Locations : pointer_motion(seat, location)
    \/ \E seat \in Seats : pointer_button(seat)
    \/ \E seat \in Seats : pointer_axis(seat)
    \/ \E seat \in Seats : pointer_leave(seat)
    \/ \E seat \in Seats : CallCursorPosition(seat)
    \/ \E seat \in Seats : keyboard_enter(seat)
    \/ \E seat \in Seats : keyboard_leave(seat)
    \/ \E seat \in Seats : keyboard_key(seat)
    \/ \E seat \in Seats : keyboard_modifiers(seat)

\* A mapped window under the pointer events of the seats.
SpecInput == Init /\ [][NextInput]_vars

\* ------------------------------------------------------------ surface lookup
\* The bits of WindowSurfaceType that has_surface tests.
SurfaceTypes == SUBSET {"TOPLEVEL", "SUBSURFACE", "POPUP"}

\* w.toplevel().wl_surface(): a toplevel's own surface carries its number.
wl_surface(w) == w

\* with_surface_tree_downward(toplevel, surface, ..) with has_surface's three
\* closures: every surface is descended into (DoChildren), each visited
\* surface is compared with the one searched (found |= s == search), and the
\* walk goes on only while nothing was found (!found). WalkTree visits s and
\* then its subsurfaces; WalkChildren visits a list of siblings in order.
RECURSIVE WalkTree(_, _, _)
RECURSIVE WalkChildren(_, _, _)
WalkTree(s, search, found) ==
    LET here == found \/ (s = search)
    IN  IF here THEN TRUE ELSE WalkChildren(surface_children[s], search, here)
WalkChildren(children, search, found) ==
    IF found \/ children = <<>> THEN found
    ELSE WalkChildren(Tail(children), search, WalkTree(Head(children), search, found))

\* PopupManager::popups_for_surface(toplevel).any(|(p, _)| p.wl_surface() == surface)
IsPopupOf(toplevel, surface) == surface \in popups[toplevel]

\* The closure has_surface gives to any(): one window against the surface.
WindowHasSurface_PopupBitIgnored(w, surface, surface_type) ==
    \/ "TOPLEVEL" \in surface_type /\ wl_surface(w) = surface
    \/ "SUBSURFACE" \in surface_type /\ WalkTree(wl_surface(w), surface, FALSE)
    \/ IsPopupOf(wl_surface(w), surface)
WindowHasSurface(w, surface, surface_type) ==
    LET toplevel == wl_surface(w)
    IN  IF "TOPLEVEL" \in surface_type /\ toplevel = surface THEN TRUE
        ELSE IF "SUBSURFACE" \in surface_type /\ WalkTree(toplevel, surface, FALSE)
        THEN TRUE
        ELSE IF "POPUP" \in surface_type THEN IsPopupOf(toplevel, surface)
        ELSE FALSE

\* CosmicMapped::has_surface.
has_surface(surface, surface_type) ==
    \E i \in DOMAIN windows : WindowHasSurface(windows[i][1], surface, surface_type)

\* A call of has_surface: reads only.
CallHasSurface(surface, surface_type) ==
    /\ lastOp' = [op |-> "has_surface", surface |-> surface,
                  surface_type |-> surface_type,
                  ret |-> has_surface(surface, surface_type)]
    /\ outbox' = {}
    /\ UNCHANGED <<env, element, sizes, xdg, aux, pointer, ops>>

\* What a surface that is no toplevel's own can be: a subsurface of a surface
\* created before it, a popup of a toplevel, or neither.
SurfaceRoles ==
    {[role |-> "none"]}
        \cup {[role |-> "subsurface", parent |-> p] : p \in Surfaces}
        \cup {[role |-> "popup", parent |-> t] : t \in Toplevels}

\* The elements of a set of surfaces in ascending order.
Ascending(S) ==
    CHOOSE q \in [1..Cardinality(S) -> S] :
        \A i, j \in 1..Cardinality(S) : i < j => q[i] < q[j]

\* Every surface beyond the toplevels' own has some role; toplevels that are no
\* tab of this mapped window belong to other windows.
DrawnSurfaces ==
    \E roles \in [ExtraSurfaces -> SurfaceRoles] :
        /\ \A e \in ExtraSurfaces :
              roles[e].role = "subsurface" => roles[e].parent < e
        /\ surface_children =
              [s \in Surfaces |->
                  Ascending({e \in ExtraSurfaces :
                      roles[e].role = "subsurface" /\ roles[e].parent = s})]
        /\ popups =
              [t \in Toplevels |->
                  {e \in ExtraSurfaces :
                      roles[e].role = "popup" /\ roles[e].parent = t}]

InitSurface ==
    /\ Mapped({None})
    /\ UndeclaredSizes
    /\ FreshStates
    /\ UnitGeometry
    /\ DrawnSurfaces
    /\ Idle

\* has_surface reads only, so a lookup that follows another starts from the
\* same surfaces and fields: every lookup is made first.
NextSurface ==
    /\ lastOp.op # "has_surface"
    /\ \E surface \in Surfaces, surface_type \in SurfaceTypes :
          CallHasSurface(surface, surface_type)

\* Surface lookups on a mapped window whose toplevels have subsurfaces and popups.
SpecSurface == InitSurface /\ [][NextSurface]_vars

\* -------------------------------------------------------------- field locks
\* What an operation does as far as the field locks go: it locks a field,
\* unlocks it, stores to the debug field, or calls into another component. A
\* call into the wrapped element may call back into this mapped window.
Lock(l) == [do |-> "lock", lock |-> l, into |-> "none", reentrant |-> FALSE, flag |-> FALSE]
Unlock(l) == [do |-> "unlock", lock |-> l, into |-> "none", reentrant |-> FALSE, flag |-> FALSE]
Store(flag) == [do |-> "store", lock |-> "debug", into |-> "none", reentrant |-> FALSE, flag |-> flag]
Call(into, reentrant) ==
    [do |-> "call", lock |-> "none", into |-> into, reentrant |-> reentrant, flag |-> FALSE]
\* A call made only inside if let Some(debug) = ..
CallIfDebug(into) ==
    [do |-> "call_if_debug", lock |-> "none", into |-> into, reentrant |-> FALSE, flag |-> FALSE]

\* cursor_position: the guard is a temporary of the one expression.
CursorPositionSteps ==
    <<Lock("last_cursor_position"), Unlock("last_cursor_position")>>

\* PointerTarget::enter, motion and leave: the guard is a temporary of the
\* insert or remove statement, dropped before the match that forwards.
TrackedPointerSteps_GuardKept ==
    <<Lock("last_cursor_position"), Call("element", TRUE),
      Unlock("last_cursor_position")>>
TrackedPointerSteps ==
    <<Lock("last_cursor_position"), Unlock("last_cursor_position"),
      Call("element", TRUE)>>

\* PointerTarget::button and axis and the four KeyboardTarget handlers.
ForwardSteps == <<Call("element", TRUE)>>

\* set_debug: the guard is bound to a local and lives to the end of the
\* function, over EguiState::new when the flag is set.
SetDebugSteps(flag) ==
    IF flag THEN <<Lock("debug"), Call("egui", FALSE), Store(TRUE), Unlock("debug")>>
    ELSE <<Lock("debug"), Store(FALSE), Unlock("debug")>>

\* render_elements: the guard is a temporary of the if let scrutinee, so it
\* lives to the end of the if let: over active_window(), geometry(),
\* with_states and bbox(), and over glow_renderer_mut() and debug.render. The
\* wrapped element's render_elements is called after it.
RenderElementsSteps ==
    <<Lock("debug"), CallIfDebug("window"), CallIfDebug("renderer"),
      Unlock("debug"), Call("element", TRUE)>>

\* A layout engine reading or writing tiling_node_id, last_geometry or
\* resize_state: one lock, one access.
FieldAccessSteps(l) == <<Lock(l), Unlock(l)>>

TrackedPointerEvents == {"pointer_enter", "pointer_motion", "pointer_leave"}
ForwardedEvents ==
    {"pointer_button", "pointer_axis",
     "keyboard_enter", "keyboard_leave", "keyboard_key", "keyboard_modifiers"}
LayoutFields == {"tiling_node_id", "last_geometry", "resize_state"}

\* The steps of operation op called with flag arg.
Program(op, arg) ==
    CASE op = "cursor_position" -> CursorPositionSteps
      [] op \in TrackedPointerEvents -> TrackedPointerSteps
      [] op \in ForwardedEvents -> ForwardSteps
      [] op = "set_debug" -> SetDebugSteps(arg)
      [] op = "render_elements" -> RenderElementsSteps
      [] op \in LayoutFields -> FieldAccessSteps(op)

\* The operations each holder of a handle starts.
OpsOf(th) ==
    CASE th = "render" -> {"render_elements"}
      [] th = "input" -> TrackedPointerEvents \cup ForwardedEvents
      [] th = "layout" -> LayoutFields \cup {"cursor_position", "set_debug"}

\* The operations a called-into element calls back: the cursor query, a
\* pointer event it dispatches again, and the debug toggle.
CallbackOps == {"cursor_position", "pointer_motion", "set_debug"}

\* Every operation with steps of its own.
LockOps ==
    TrackedPointerEvents \cup ForwardedEvents \cup LayoutFields
        \cup {"cursor_position", "set_debug", "render_elements"}

\* The flags an operation can be called with: only set_debug takes one.
FlagsOf(op) == IF op = "set_debug" THEN BOOLEAN ELSE {FALSE}

Frame(op, arg) == [op |-> op, arg |-> arg, pc |-> 1, calling |-> FALSE]
Running(th) == frames[th] # <<>>
Top(th) == frames[th][Len(frames[th])]
Instr(f) == Program(f.op, f.arg)[f.pc]
Holds(th) == {l \in Locks : owner[l] = Some(th)}

\* The frames of th once its innermost operation is past its current step: the
\* operation returns after its last step.
Advance(th) ==
    LET n == Len(frames[th])
        f == frames[th][n]
    IN  IF f.pc = Len(Program(f.op, f.arg))
        THEN [frames EXCEPT ![th] = SubSeq(@, 1, n - 1)]
        ELSE [frames EXCEPT ![th][n] = [f EXCEPT !.pc = @ + 1, !.calling = FALSE]]

\* What no step of an operation writes, but for set_debug's store to debug.
LockFrame ==
    UNCHANGED <<element, sizes, xdg, tiling_node_id, last_geometry, resize_state,
                pointer, surfaces, sharing, outbox, lastOp, ops>>

\* A holder of a handle calls an operation.
Start(th, op, arg) ==
    /\ ~Running(th)
    /\ op \in OpsOf(th)
    /\ frames' = [frames EXCEPT ![th] = <<Frame(op, arg)>>]
    /\ UNCHANGED <<owner, debug>>
    /\ LockFrame

\* The element an operation called into calls an operation of this mapped
\* window, on the caller's thread.
Callback(th, op, arg) ==
    /\ Running(th)
    /\ Top(th).calling
    /\ Instr(Top(th)).reentrant
    /\ Len(frames[th]) < MaxDepth
    /\ op \in CallbackOps
    /\ frames' = [frames EXCEPT ![th] = Append(@, Frame(op, arg))]
    /\ UNCHANGED <<owner, debug>>
    /\ LockFrame

\* Mutex::lock: waits while the lock is held, by whichever thread.
Acquire(th) ==
    /\ Running(th)
    /\ Instr(Top(th)).do = "lock"
    /\ owner[Instr(Top(th)).lock] = None
    /\ owner' = [owner EXCEPT ![Instr(Top(th)).lock] = Some(th)]
    /\ frames' = Advance(th)
    /\ UNCHANGED debug
    /\ LockFrame

\* The guard is dropped.
Release(th) ==
    /\ Running(th)
    /\ Instr(Top(th)).do = "unlock"
    /\ owner' = [owner EXCEPT ![Instr(Top(th)).lock] = None]
    /\ frames' = Advance(th)
    /\ UNCHANGED debug
    /\ LockFrame

\* *debug = Some(EguiState::new(..)) or debug.take().
StoreDebug(th) ==
    /\ Running(th)
    /\ Instr(Top(th)).do = "store"
    /\ debug' = IF Instr(Top(th)).flag THEN Some("EguiState") ELSE None
    /\ frames' = Advance(th)
    /\ UNCHANGED owner
    /\ LockFrame

\* Whether the call at the current step is made: the overlay's calls only when
\* the debug field holds Some.
CallMade(f) ==
    \/ Instr(f).do = "call"
    \/ Instr(f).do = "call_if_debug" /\ debug # None

\* The operation calls into another component.
EnterCall(th) ==
    /\ Running(th)
    /\ ~Top(th).calling
    /\ CallMade(Top(th))
    /\ frames' = [frames EXCEPT ![th][Len(frames[th])].calling = TRUE]
    /\ UNCHANGED <<owner, debug>>
    /\ LockFrame

\* The else branch of if let Some(debug): the overlay's calls are not made.
SkipCall(th) ==
    /\ Running(th)
    /\ Instr(Top(th)).do = "call_if_debug"
    /\ debug = None
    /\ frames' = Advance(th)
    /\ UNCHANGED <<owner, debug>>
    /\ LockFrame

\* The call returns.
ReturnCall(th) ==
    /\ Running(th)
    /\ Top(th).calling
    /\ frames' = Advance(th)
    /\ UNCHANGED <<owner, debug>>
    /\ LockFrame

\* The fields and their locks are the same for both variants: a stack of
\* MaxTabs tabs stands for either.
InitLocks ==
    /\ FromElement("Stack", MaxTabs, 1, None)
    /\ UndeclaredSizes
    /\ FreshStates
    /\ UnitGeometry
    /\ BareSurfaces
    /\ Idle

NextLocks ==
    \/ \E th \in Threads, op \in LockOps : \E arg \in FlagsOf(op) :
          Start(th, op, arg)
    \/ \E th \in Threads, op \in CallbackOps : \E arg \in FlagsOf(op) :
          Callback(th, op, arg)
    \/ \E th \in Threads : Acquire(th)
    \/ \E th \in Threads : Release(th)
    \/ \E th \in Threads : StoreDebug(th)
    \/ \E th \in Threads : EnterCall(th)
    \/ \E th \in Threads : SkipCall(th)
    \/ \E th \in Threads : ReturnCall(th)

\* The render loop, the input dispatcher and the layout engines, each with a
\* handle to the same mapped window, running its operations step by step.
SpecLocks == InitLocks /\ [][NextLocks]_vars

\* ------------------------------------------------------- rendering, debug overlay
\* The fields after set_debug(flag): the debug field gets a new EguiState or is
\* taken; the function names no other field.
FieldsAfterSetDebug_TakeAll(flag) ==
    IF flag THEN <<tiling_node_id, last_geometry, resize_state, Some("EguiState")>>
    ELSE <<None, None, None, None>>
FieldsAfterSetDebug(flag) ==
    <<tiling_node_id, last_geometry, resize_state,
      IF flag THEN Some("EguiState") ELSE None>>

\* CosmicMapped::set_debug.
set_debug(flag) ==
    /\ tiling_node_id' = FieldsAfterSetDebug(flag)[1]
    /\ last_geometry' = FieldsAfterSetDebug(flag)[2]
    /\ resize_state' = FieldsAfterSetDebug(flag)[3]
    /\ debug' = FieldsAfterSetDebug(flag)[4]
    /\ lastOp' = [op |-> "set_debug", arg |-> flag]
    /\ outbox' = {}
    /\ UNCHANGED <<env, element, sizes, xdg, pointer, ops>>

\* The first part of render_elements: with debug state, the overlay's element
\* if debug.render returned Ok and nothing if it returned Err (the error is
\* logged); nothing without.
DebugOverlay_ErrorShown(ok) ==
    IF debug = None THEN <<>>
    ELSE <<[element |-> IF ok THEN "Egui" ELSE "Error"]>>
DebugOverlay(ok) ==
    IF debug # None /\ ok THEN <<[element |-> "Egui"]>> ELSE <<>>

\* What the wrapped CosmicStack or CosmicWindow renders: its header or tab
\* strip where one is attached, then the content of the window shown.
ElementRenderElements ==
    (IF header = None THEN <<>> ELSE <<[element |-> "Header", of |-> kind]>>)
        \o <<[element |-> "Content", of |-> active_window]>>

\* elements, once extended: the overlay's part, then what the wrapped element
\* renders, collected in that order.
RenderedElements_OverlayLast(ok) == ElementRenderElements \o DebugOverlay(ok)
RenderedElements(ok) == DebugOverlay(ok) \o ElementRenderElements

\* AsRenderElements::render_elements: the overlay's elements, then the wrapped
\* element's. ok tells whether debug.render succeeds.
render_elements(ok) ==
    /\ lastOp' = [op |-> "render_elements", ok |-> ok, ret |-> RenderedElements(ok)]
    /\ outbox' = {}
    /\ UNCHANGED <<env, element, sizes, xdg, aux, pointer, ops>>

NextRender ==
    \/ \E flag \in BOOLEAN : set_debug(flag)
    \/ \E ok \in BOOLEAN : render_elements(ok)

\* A mapped window with or without a decoration header.
InitDecorated ==
    /\ Mapped(Headers)
    /\ UndeclaredSizes
    /\ FreshStates
    /\ UnitGeometry
    /\ BareSurfaces
    /\ Idle

\* The debug toggle and the frames rendered, for decorated and bare windows.
SpecRender == InitDecorated /\ [][NextRender]_vars

\* ------------------------------------------------------- layout bookkeeping
\* A layout engine stores to one of the three fields it owns: a value or None.
LayoutStore(field, value) ==
    /\ lastOp.op \in {"from", "layout_store"}
    /\ tiling_node_id' = IF field = "tiling_node_id" THEN value ELSE tiling_node_id
    /\ last_geometry' = IF field = "last_geometry" THEN value ELSE last_geometry
    /\ resize_state' = IF field = "resize_state" THEN value ELSE resize_state
    /\ lastOp' = [op |-> "layout_store", field |-> field]
    /\ outbox' = {}
    /\ UNCHANGED <<env, element, sizes, xdg, debug, pointer, ops>>

\* The operations of each part of the file, by the name lastOp records.
StateOps ==
    {"set_resizing", "set_fullscreen", "set_maximized", "set_activated", "set_tiled",
     "is_resizing", "is_fullscreen", "is_maximized", "is_activated", "is_tiled",
     "configure", "client_ack", "send_close", "set_active", "focus_window"}
SizeOps == {"min_size", "max_size"}
InputOps ==
    {"pointer_enter", "pointer_motion", "pointer_button", "pointer_axis",
     "pointer_leave", "cursor_position",
     "keyboard_enter", "keyboard_leave", "keyboard_key", "keyboard_modifiers"}
SurfaceOps == {"has_surface"}
RenderOps == {"set_debug", "render_elements"}

\* Once the layout engine has set its fields, a behaviour stays within one
\* part of the file: the parts share no variable but the fields of aux.
Exercising(part) == lastOp.op \in part \cup {"from", "layout_store"}

NextCore ==
    \/ \E field \in LayoutFields, value \in {None, Some("set")} :
          LayoutStore(field, value)
    \/ Exercising(StateOps) /\ ops < MaxCoreOps /\ NextState
    \/ Exercising(SizeOps) /\ NextSize
    \/ Exercising(InputOps) /\ NextInput
    \/ Exercising(SurfaceOps) /\ NextSurface
    \/ Exercising(RenderOps) /\ NextRender

\* Every operation of the file, on a mapped window whose layout fields the
\* layout engines have set or left empty.
SpecCore == Init /\ [][NextCore]_vars

\* ------------------------------------------------------------ shared handles
\* The holders that hold a handle, and the handle of one of them.
Holding == {th \in Threads : handles[th] # None}
Held(h) == handles[h][1]

\* The contents of allocation 0, field by field.
Original ==
    [last_cursor_position |-> last_cursor_position, tiling_node_id |-> tiling_node_id,
     last_geometry |-> last_geometry, resize_state |-> resize_state, debug |-> debug]

\* What the Mutex behind field f of handle h holds.
Deref(h, f) ==
    LET r == Held(h).cell[f]
    IN  IF r = 0 THEN Original[f] ELSE cells[r][f]

\* #[derive(Clone)] on CosmicMapped: element.clone() and Arc::clone of every
\* field, which points to the allocation the cloned handle points to.
Cloned_DeepCopy(h) ==
    [handle |-> [Held(h) EXCEPT !.cell = [f \in Locks |-> Len(cells) + 1]],
     cells |-> Append(cells, [f \in Locks |-> Deref(h, f)])]
Cloned(h) == [handle |-> Held(h), cells |-> cells]

\* Another conversion, of element e: new Arcs over the initial values.
Converted(e) ==
    [handle |-> ConvertedHandle(e, Len(cells) + 1),
     cells |-> Append(cells, ConvertedFields)]

\* Holder th, which holds none, is handed a new handle.
NewHandle(th, op, arg, made) ==
    /\ handles[th] = None
    /\ handles' = [handles EXCEPT ![th] = Some(made.handle)]
    /\ cells' = made.cells
    /\ lastOp' = [op |-> op, arg |-> arg]
    /\ outbox' = {}
    /\ UNCHANGED <<surfaces, threads, element, sizes, xdg, aux, pointer, ops>>

\* CosmicMapped::clone on the handle of h, for th.
Clone(h, th) == NewHandle(th, "clone", h, Cloned(h))

\* CosmicMapped::from on element e, converted before or not, for th.
ConvertElement(e, th) == NewHandle(th, "from_element", e, Converted(e))

\* *self.f.lock().unwrap() = v through handle h: the allocation the handle's
\* field points to takes the value, the others keep theirs.
StoreThrough(h, f, v) ==
    LET r == Held(h).cell[f]
        original == IF r = 0 THEN [Original EXCEPT ![f] = v] ELSE Original
    IN  /\ cells' = IF r = 0 THEN cells ELSE [cells EXCEPT ![r][f] = v]
        /\ last_cursor_position' = original.last_cursor_position
        /\ tiling_node_id' = original.tiling_node_id
        /\ last_geometry' = original.last_geometry
        /\ resize_state' = original.resize_state
        /\ debug' = original.debug
        /\ handles' = handles

\* A write through a handle, within the budget of writes.
WriteThrough(h, f, v) ==
    /\ ops < MaxSharedWrites
    /\ ops' = ops + 1
    /\ StoreThrough(h, f, v)
    /\ UNCHANGED <<surfaces, threads, element, sizes, xdg>>

\* PointerTarget::enter, motion and leave called on handle h, a handle on the
\* mapped element: the handler of the pointer section, on the map behind h.
PointerThrough(h, event, seat, after) ==
    /\ Held(h).element = 1
    /\ WriteThrough(h, "last_cursor_position", after)
    /\ outbox' = Forward(event, seat,
                         MapAtForward(Deref(h, "last_cursor_position"), after))

EnterThrough(h, seat, location) ==
    /\ PointerThrough(h, "pointer_enter", seat,
                      MapInsert(Deref(h, "last_cursor_position"), seat, location))
    /\ inside' = inside \cup {seat}
    /\ lastOp' = [op |-> "pointer_enter", handle |-> h, seat |-> seat,
                  location |-> location]

MotionThrough(h, seat, location) ==
    /\ seat \in inside
    /\ PointerThrough(h, "pointer_motion", seat,
                      MapInsert(Deref(h, "last_cursor_position"), seat, location))
    /\ inside' = inside
    /\ lastOp' = [op |-> "pointer_motion", handle |-> h, seat |-> seat,
                  location |-> location]

LeaveThrough(h, seat) ==
    /\ PointerThrough(h, "pointer_leave", seat,
                      MapRemove(Deref(h, "last_cursor_position"), seat))
    /\ inside' = inside \ {seat}
    /\ lastOp' = [op |-> "pointer_leave", handle |-> h, seat |-> seat]

\* A read through a handle: nothing changes.
ReadThrough(result) ==
    /\ lastOp' = result
    /\ outbox' = {}
    /\ UNCHANGED <<env, element, sizes, xdg, aux, pointer, ops>>

\* cursor_position(seat) called on handle h.
CursorPositionThrough(h, seat) ==
    LET map == Deref(h, "last_cursor_position")
    IN  ReadThrough([op |-> "cursor_position", handle |-> h, seat |-> seat,
                     ret |-> IF seat \in DOMAIN map THEN Some(map[seat]) ELSE None])

\* A layout engine sets one of its fields through handle h.
LayoutStoreThrough(h, field, value) ==
    /\ WriteThrough(h, field, value)
    /\ inside' = inside
    /\ outbox' = {}
    /\ lastOp' = [op |-> "layout_store", handle |-> h, field |-> field,
                  value |-> value]

\* A layout engine reads one of its fields through handle h.
LayoutLoadThrough(h, field) ==
    ReadThrough([op |-> "layout_load", handle |-> h, field |-> field,
                 ret |-> Deref(h, field)])

\* impl PartialEq for CosmicMapped: self.element == other.element.
eq(h, g) == Held(h).element = Held(g).element

\* impl Hash for CosmicMapped: what self.element.hash(state) feeds the hasher.
hash(h) == Held(h).element

CallEq(h, g) == ReadThrough([op |-> "eq", handle |-> h, other |-> g, ret |-> eq(h, g)])
CallHash(h) == ReadThrough([op |-> "hash", handle |-> h, ret |-> hash(h)])

\* Every operation on a handle.
NextHandle ==
    \/ \E h \in Holding, th \in Threads : Clone(h, th)
    \/ \E e \in Elements, th \in Threads : ConvertElement(e, th)
    \/ \E h \in Holding, seat \in Seats, location \in Locations :
          EnterThrough(h, seat, location)
    \/ \E h \in Holding, seat \in Seats, location \in Locations :
          MotionThrough(h, seat, location)
    \/ \E h \in Holding, seat \in Seats : LeaveThrough(h, seat)
    \/ \E h \in Holding, seat \in Seats : CursorPositionThrough(h, seat)
    \/ \E h \in Holding, field \in LayoutFields, value \in {None, Some("set")} :
          LayoutStoreThrough(h, field, value)
    \/ \E h \in Holding, field \in LayoutFields : LayoutLoadThrough(h, field)
    \/ \E h, g \in Holding : CallEq(h, g)
    \/ \E h \in Holding : CallHash(h)

\* The reads of this section, by the name lastOp records.
SharedReads == {"cursor_position", "layout_load", "eq", "hash"}

\* A read changes nothing but lastOp, so a behaviour that goes on after one
\* reaches no field contents that one without it does not: reads end a behaviour.
NextShared ==
    /\ lastOp.op \notin SharedReads
    /\ NextHandle

\* One mapped window, its handle cloned for the other holders or its element
\* converted again for them.
InitShared ==
    /\ FromElement("Window", 1, 1, None)
    /\ UndeclaredSizes
    /\ FreshStates
    /\ UnitGeometry
    /\ BareSurfaces
    /\ Idle

SpecShared == InitShared /\ [][NextShared]_vars

\* =================================================================== claims
SetMax(S) == CHOOSE m \in S : \A x \in S : x <= m
SetMin(S) == CHOOSE m \in S : \A x \in S : m <= x
TabSet == Range(tabs)
\* Component-wise a >= b.
SizeGe(a, b) == a.w >= b.w /\ a.h >= b.h
\* The largest declared minimum over the tabs, per axis.
LargestMin == [w |-> SetMax({attrs_min_size[t].w : t \in TabSet}),
               h |-> SetMax({attrs_min_size[t].h : t \in TabSet})]
\* The smallest non-zero value of S, or 0 when S holds none.
SmallestNonZero(S) == IF S \ {0} = {} THEN 0 ELSE SetMin(S \ {0})
\* The smallest non-zero declared maximum over the tabs, per axis.
SmallestMax == [w |-> SmallestNonZero({attrs_max_size[t].w : t \in TabSet}),
                h |-> SmallestNonZero({attrs_max_size[t].h : t \in TabSet})]

\* C1 as stated: whenever max_size() returns, for a Single or a Stack, the
\* result is component-wise >= min_size().
C1_MaxGeMinEveryVariant ==
    lastOp.op = "max_size" => SizeGe(lastOp.ret.val, min_size.val)

\* C1 amended: for a Stack, max_size() is component-wise >= min_size(); for a
\* Single it is the declared maximum, and is below min_size() on an axis exactly
\* when the declared maximum (e.g. 0) is below the declared minimum there.
C1_StackMaxGeMin ==
    lastOp.op = "max_size" =>
        /\ kind = "Stack" => SizeGe(lastOp.ret.val, min_size.val)
        /\ kind = "Window" =>
              (SizeGe(lastOp.ret.val, min_size.val)
                  <=> SizeGe(attrs_max_size[tabs[1]], attrs_min_size[tabs[1]]))

\* C1 witness: max_size() returned on a Stack where one tab declares a maximum
\* width below the minimum width another tab declares, and the clamp raised it.
C1_ClampRaised ==
    /\ kind = "Stack"
    /\ lastOp.op = "max_size"
    /\ \E t, u \in TabSet :
          /\ t # u
          /\ attrs_max_size[t].w # 0
          /\ attrs_max_size[t].w < attrs_min_size[u].w
          /\ lastOp.ret.val.w = attrs_min_size[u].w

\* C5: min_size() of a Stack is, per axis, the largest minimum any tab declares,
\* hence >= the declared minimum of every tab.
C5_StackMinIsLargest ==
    (kind = "Stack" /\ lastOp.op = "min_size") =>
        /\ ~lastOp.ret.panic
        /\ lastOp.ret.val = LargestMin
        /\ \A t \in TabSet : SizeGe(lastOp.ret.val, attrs_min_size[t])

\* C5 witness: min_size() returned on a Stack where the width comes from one tab
\* and the height from another, so that no tab declares the result.
C5_MixedTabs ==
    /\ kind = "Stack"
    /\ lastOp.op = "min_size"
    /\ lastOp.ret.val.w > 0
    /\ lastOp.ret.val.h > 0
    /\ \A t \in TabSet : attrs_min_size[t] # lastOp.ret.val

\* Example A of the specification.
ExampleA_Mins == <<[w |-> 100, h |-> 50], [w |-> 150, h |-> 40]>>
ExampleA_Maxs == <<[w |-> 0, h |-> 0], [w |-> 300, h |-> 300]>>

\* C6: max_size() of a Stack is, per axis, the smallest non-zero declared
\* maximum (0 if every tab declares 0), raised to min_size(); Example A gives
\* min_size() = (150, 50) and max_size() = (300, 300).
C6_StackMaxFold ==
    /\ (kind = "Stack" /\ lastOp.op = "max_size") =>
          /\ ~lastOp.ret.panic
          /\ lastOp.ret.val.w = Max2(SmallestMax.w, LargestMin.w)
          /\ lastOp.ret.val.h = Max2(SmallestMax.h, LargestMin.h)
    /\ StackMinSize(ExampleA_Mins) = Ret([w |-> 150, h |-> 50])
    /\ StackMaxSize(ExampleA_Mins, ExampleA_Maxs) = Ret([w |-> 300, h |-> 300])

\* C6 witness: max_size() returned on a Stack where one tab declares width 0,
\* two others declare different non-zero widths, and the smaller one is returned.
C6_ZeroExcluded ==
    /\ kind = "Stack"
    /\ lastOp.op = "max_size"
    /\ \E t \in TabSet : attrs_max_size[t].w = 0
    /\ \E t, u \in TabSet :
          /\ attrs_max_size[t].w # 0
          /\ attrs_max_size[t].w < attrs_max_size[u].w
          /\ lastOp.ret.val.w = attrs_max_size[t].w

\* C7: on a Single, min_size() and max_size() return the declared minimum and
\* the declared maximum of the sole window unchanged, (0, 0) included.
C7_SinglePassThrough ==
    kind = "Window" =>
        /\ lastOp.op = "min_size" => lastOp.ret = Ret(attrs_min_size[tabs[1]])
        /\ lastOp.op = "max_size" => lastOp.ret = Ret(attrs_max_size[tabs[1]])

\* C7 witness: max_size() returned (0, 0) on a Single whose window declares a
\* non-zero minimum and no maximum.
C7_ZeroMaxVerbatim ==
    /\ kind = "Window"
    /\ lastOp.op = "max_size"
    /\ attrs_min_size[tabs[1]].w > 0
    /\ attrs_min_size[tabs[1]].h > 0
    /\ lastOp.ret.val = [w |-> 0, h |-> 0]

\* The setter and the query of each shared state.
SetterOf == [Resizing |-> "set_resizing", Fullscreen |-> "set_fullscreen",
             Maximized |-> "set_maximized", Activated |-> "set_activated"]
QueryOf == [Resizing |-> "is_resizing", Fullscreen |-> "is_fullscreen",
            Maximized |-> "is_maximized", Activated |-> "is_activated"]
\* The active tab of a Stack, the sole window of a Single.
ActiveToplevel == IF kind = "Stack" THEN active ELSE tabs[1]

\* C2: right after set_X(true), with no configure and no acknowledgement in
\* between, is_X() is true, for X in {resizing, fullscreen, maximized, activated}.
C2_SetTrueThenIs ==
    \A x \in SharedStates :
        (lastOp.op = SetterOf[x] /\ lastOp.arg) => IsShared(x)

\* C2 witness: set_X(true) was just called on a Stack whose active tab is not the
\* first one and has not acknowledged X, a configure without X being in flight.
C2_PendingOnly ==
    \E x \in SharedStates :
        /\ lastOp.op = SetterOf[x]
        /\ lastOp.arg
        /\ kind = "Stack"
        /\ active # tabs[1]
        /\ x \notin current[active]
        /\ configured[active] # None
        /\ x \notin configured[active][1]

\* C3: right after set_X(b), the pending states of every tab of a Stack, or of
\* the sole window of a Single, contain X iff b.
C3_SetReachesEveryTab ==
    \A x \in SharedStates :
        lastOp.op = SetterOf[x] =>
            \A t \in (IF kind = "Stack" THEN TabSet ELSE {tabs[1]}) :
                (x \in pending[t]) <=> lastOp.arg

\* C3 witness: set_X(false) was just called on a three-tab Stack of which an
\* inactive tab has acknowledged X.
C3_UnsetOnInactive ==
    \E x \in SharedStates :
        /\ lastOp.op = SetterOf[x]
        /\ ~lastOp.arg
        /\ kind = "Stack"
        /\ Len(tabs) = 3
        /\ \E t \in TabSet : t # active /\ x \in current[t]

\* C4: is_X() returns true iff the current or the pending states of the active
\* window contain X, whatever the states of the inactive tabs.
C4_IsReadsActiveOnly ==
    \A x \in SharedStates :
        lastOp.op = QueryOf[x] =>
            (lastOp.ret <=> (x \in current[ActiveToplevel] \/ x \in pending[ActiveToplevel]))

\* C4 witness: is_X() returned false on a Stack of which an inactive tab has
\* acknowledged X.
C4_InactiveIgnored ==
    \E x \in SharedStates :
        /\ lastOp.op = QueryOf[x]
        /\ ~lastOp.ret
        /\ kind = "Stack"
        /\ \E t \in TabSet : t # active /\ x \in current[t]

\* C8: after a pointer enter or motion of seat S at location L,
\* cursor_position(S) is Some(L); after a pointer leave of S it is None.
C8_CursorFollowsPointer ==
    /\ lastOp.op \in {"pointer_enter", "pointer_motion"} =>
          cursor_position(lastOp.seat) = Some(lastOp.location)
    /\ lastOp.op = "pointer_leave" => cursor_position(lastOp.seat) = None

\* C8 witness: a motion of one seat has just stored its location while another
\* seat, still inside, keeps a different one.
C8_MotionStored ==
    /\ lastOp.op = "pointer_motion"
    /\ cursor_position(lastOp.seat) = Some(lastOp.location)
    /\ \E s \in Seats :
          /\ s # lastOp.seat
          /\ cursor_position(s) # None
          /\ cursor_position(s) # Some(lastOp.location)

C10_CloseActiveOnly ==
    lastOp.op = "send_close" =>
        /\ outbox = {[to |-> ActiveToplevel, call |-> "send_close"]}
        /\ Len(windows) = Len(tabs)
        /\ \A i \in DOMAIN tabs : windows[i][1] = tabs[i]

\* C10 witness: send_close() was just called on a three-tab Stack whose active
\* tab is the second one.
C10_ThreeTabs ==
    /\ lastOp.op = "send_close"
    /\ kind = "Stack"
    /\ Len(tabs) = 3
    /\ active = tabs[2]
    /\ Len(windows) = 3

\* C11: configure() makes exactly one send_configure call for every constituent
\* window, every tab of a Stack whether active or not, or the sole window of a
\* Single, and no other call.
C11_ConfigureEveryConstituent ==
    lastOp.op = "configure" =>
        /\ \A t \in TabSet :
              Cardinality({c \in outbox : c.to = t /\ c.call = "send_configure"}) = 1
        /\ \A c \in outbox : c.to \in TabSet /\ c.call = "send_configure"

\* configure() was called on a Stack of three tabs and an inactive tab got its
\* send_configure.
C11_InactiveConfigured ==
    /\ lastOp.op = "configure"
    /\ kind = "Stack"
    /\ Len(tabs) = 3
    /\ \E c \in outbox : c.to # active /\ c.call = "send_configure"

\* C12: set_tiled(b) on a Stack changes neither the pending nor the current
\* states of any tab; on a Single, set_tiled(true) leaves all four tiled states
\* set in the pending state of the sole window and set_tiled(false) leaves all
\* four unset.
C12_SetTiled ==
    /\ [][(lastOp'.op = "set_tiled" /\ kind = "Stack") =>
              (pending' = pending /\ current' = current)]_vars
    /\ [](lastOp.op = "set_tiled" /\ kind = "Window" =>
              IF lastOp.arg THEN TiledStates \subseteq pending[tabs[1]]
              ELSE TiledStates \cap pending[tabs[1]] = {})

\* set_tiled(true) was called on a Stack whose tabs all have Activated pending:
\* no tab has a tiled state.
C12_StackUntouched ==
    /\ lastOp.op = "set_tiled"
    /\ lastOp.arg
    /\ kind = "Stack"
    /\ Len(tabs) > 1
    /\ \A t \in TabSet : pending[t] = {"Activated"}

\* The surfaces of the tree rooted at root, the root included: the least set
\* holding the root and closed under subsurfaces.
RECURSIVE TreeOf(_)
TreeOf(S) ==
    LET more == S \cup {c \in Surfaces : \E p \in S : c \in Range(surface_children[p])}
    IN  IF more = S THEN S ELSE TreeOf(more)

\* A surface that is no constituent's toplevel surface, in no constituent's
\* surface tree and no popup of a constituent.
Unrelated(s) ==
    \A t \in TabSet : s \notin TreeOf({t}) /\ s \notin popups[t]

\* C13: has_surface(s, kind) with the top-level bit in kind is true when s is the
\* toplevel surface of any tab of a Stack, active or not, or of the sole window
\* of a Single, and with kind = top-level it is false when s is unrelated to
\* every constituent.
C13_ToplevelOfAnyTab ==
    lastOp.op = "has_surface" =>
        /\ ("TOPLEVEL" \in lastOp.surface_type /\ lastOp.surface \in TabSet)
              => lastOp.ret
        /\ (lastOp.surface_type = {"TOPLEVEL"} /\ Unrelated(lastOp.surface))
              => ~lastOp.ret

\* has_surface(s, top-level) was called with the surface of an inactive tab.
C13_InactiveTabSurface ==
    /\ lastOp.op = "has_surface"
    /\ lastOp.surface_type = {"TOPLEVEL"}
    /\ kind = "Stack"
    /\ lastOp.surface \in TabSet \ {active}
    /\ lastOp.ret

\* C14: has_surface(s, kind) is true iff for some constituent window kind has
\* the top-level bit and s is its toplevel surface, or kind has the subsurface
\* bit and s is in its surface tree, or kind has the popup bit and s is one of
\* its popups; in particular it is false for the empty kind.
C14_HasSurfaceIff ==
    lastOp.op = "has_surface" =>
        LET s == lastOp.surface
            k == lastOp.surface_type
        IN  /\ lastOp.ret <=>
                  \E t \in TabSet :
                      \/ "TOPLEVEL" \in k /\ s = t
                      \/ "SUBSURFACE" \in k /\ s \in TreeOf({t})
                      \/ "POPUP" \in k /\ s \in popups[t]
            /\ k = {} => ~lastOp.ret

\* has_surface(s, subsurface) found a subsurface of a subsurface of an inactive
\* tab.
C14_NestedSubsurfaceFound ==
    /\ lastOp.op = "has_surface"
    /\ lastOp.surface_type = {"SUBSURFACE"}
    /\ kind = "Stack"
    /\ \E t \in TabSet \ {active} : \E c \in Range(surface_children[t]) :
          lastOp.surface \in Range(surface_children[c])
    /\ lastOp.ret

\* C15: set_active(w) and focus_window(w) on a Single change nothing, whatever w
\* is: active_window() and every other field and toplevel state stay as they
\* were; on a Stack they change nothing but the active tab.
C15_SetActiveOnlyOnStack ==
    [][lastOp'.op \in {"set_active", "focus_window"} =>
          /\ kind = "Window" =>
                /\ active_window' = active_window
                /\ UNCHANGED <<element, sizes, xdg, aux, pointer, surfaces>>
          /\ kind = "Stack" =>
                UNCHANGED <<kind, tabs, header, sizes, xdg, aux, pointer, surfaces>>]_vars

\* set_active(w) was called on a Single with a window other than its own, while
\* its toplevel had a state pending.
C15_ForeignWindowOnSingle ==
    /\ lastOp.op = "set_active"
    /\ kind = "Window"
    /\ lastOp.window # tabs[1]
    /\ pending[tabs[1]] # {}
    /\ active_window = tabs[1]

KeyboardEvents ==
    {"keyboard_enter", "keyboard_leave", "keyboard_key", "keyboard_modifiers"}

\* C16: a keyboard enter, leave, key or modifiers event is forwarded exactly
\* once, to the wrapped element and through it to the active tab of a Stack or
\* the sole window of a Single and to no other window, and the handler leaves
\* the cursor map as it was.
C16_KeyboardToActiveOnly ==
    /\ [](lastOp.op \in KeyboardEvents =>
              outbox = {[to |-> kind, event |-> lastOp.op, seat |-> lastOp.seat,
                         window |-> ActiveToplevel]})
    /\ [][lastOp'.op \in KeyboardEvents =>
              last_cursor_position' = last_cursor_position]_vars

\* A key event arrived at a Stack of three tabs whose second tab is active,
\* while a pointer position was tracked.
C16_KeyOnThreeTabs ==
    /\ lastOp.op = "keyboard_key"
    /\ kind = "Stack"
    /\ Len(tabs) = 3
    /\ active = 2
    /\ last_cursor_position # << >>
    /\ \E m \in outbox : m.window = 2

\* C17: pointer button and axis events leave the whole cursor map unchanged; a
\* pointer enter, motion or leave for seat S leaves cursor_position(T) unchanged
\* for every seat T other than S.
C17_PointerFrame ==
    [][/\ lastOp'.op \in {"pointer_button", "pointer_axis"} =>
              last_cursor_position' = last_cursor_position
       /\ lastOp'.op \in {"pointer_enter", "pointer_motion", "pointer_leave"} =>
              \A T \in Seats \ {lastOp'.seat} :
                  cursor_position(T)' = cursor_position(T)]_vars

\* A pointer moved for one seat while the other seat's position, a different
\* one, stays tracked.
C17_OtherSeatKept ==
    /\ lastOp.op = "pointer_motion"
    /\ cursor_position(lastOp.seat) = Some(lastOp.location)
    /\ \E T \in Seats \ {lastOp.seat} :
          cursor_position(T) \notin {None, Some(lastOp.location)}

\* The field locks thread th waits for: it is at a lock step and the lock is
\* held.
Blocked(th) ==
    /\ Running(th)
    /\ Instr(Top(th)).do = "lock"
    /\ owner[Instr(Top(th)).lock] # None

\* The locks the operation of frame f took in a step before its current one
\* and has not released since.
HeldBy(f) ==
    {l \in Locks :
        \E i \in 1..(f.pc - 1) :
            /\ Program(f.op, f.arg)[i] = Lock(l)
            /\ \A j \in (i + 1)..(f.pc - 1) : Program(f.op, f.arg)[j] # Unlock(l)}

\* C18: no operation holds one of its field locks while it is inside a call
\* that forwards an input event to the wrapped element, queries a constituent
\* window or invokes the renderer.
C18_NoLockAcrossCall ==
    \A th \in Threads : \A i \in DOMAIN frames[th] :
        (frames[th][i].calling
            /\ Instr(frames[th][i]).into \in {"element", "window", "renderer"})
        => HeldBy(frames[th][i]) = {}

\* C19: whatever the interleaving of the three holders' operations and of the
\* calls back from the wrapped element, a thread holds at most one field lock
\* at a time, holds none while it waits for one, and a thread that waits for a
\* lock waits for another thread that is itself not waiting: some thread can
\* always take its next step.
C19_NoDeadlock ==
    \A th \in Threads :
        /\ Cardinality(Holds(th)) <= 1
        /\ Blocked(th) =>
              /\ Holds(th) = {}
              /\ \E h \in Threads \ {th} :
                    /\ owner[Instr(Top(th)).lock] = Some(h)
                    /\ ~Blocked(h)

\* The input thread waits in cursor_position, called back from the element a
\* pointer event was forwarded to, for the cursor map's lock, which the layout
\* thread holds, while the render thread holds the debug lock inside the
\* renderer.
C19_CallbackWaits ==
    /\ Len(frames["input"]) = 2
    /\ frames["input"][1].op \in TrackedPointerEvents
    /\ Top("input").op = "cursor_position"
    /\ Blocked("input")
    /\ owner["last_cursor_position"] = Some("layout")
    /\ Running("render")
    /\ Top("render").calling
    /\ owner["debug"] = Some("render")

\* C20: no operation of this file changes tiling_node_id, last_geometry or
\* resize_state: not a state toggle or query, a size query, configure,
\* send_close, set_active, has_surface, a keyboard or pointer event,
\* set_debug or render_elements. Only a layout engine's store does.
C20_LayoutFieldsUntouched ==
    [][lastOp'.op # "layout_store" =>
          UNCHANGED <<tiling_node_id, last_geometry, resize_state>>]_vars

\* set_debug(false) was called while all three layout fields were set, and
\* they still are.
C20_FieldsKeptOverSetDebug ==
    /\ lastOp.op = "set_debug"
    /\ ~lastOp.arg
    /\ tiling_node_id # None
    /\ last_geometry # None
    /\ resize_state # None

\* C21: right after the conversion from a bare window or a bare stack,
\* cursor_position(S) is None for every seat S, tiling_node_id, last_geometry
\* and resize_state are None and the debug overlay is off; the mapped window
\* wraps a Window with its one window or a Stack with its tabs.
C21_ConvertedEmpty ==
    lastOp.op = "from" =>
        /\ \A S \in Seats : cursor_position(S) = None
        /\ tiling_node_id = None
        /\ last_geometry = None
        /\ resize_state = None
        /\ debug = None
        /\ kind \in {"Window", "Stack"}
        /\ kind = "Window" => Len(tabs) = 1
        /\ Range(Constituents) = TabSet

\* A mapped window just converted from a stack of three tabs.
C21_FromStack ==
    /\ lastOp.op = "from"
    /\ kind = "Stack"
    /\ Len(tabs) = 3
    /\ DebugOverlay(TRUE) = <<>>

\* C22: when the debug overlay is on and rendering it fails, render_elements
\* returns exactly what the wrapped element renders, and no call of
\* render_elements changes the debug state, so that a frame whose overlay
\* renders while the state is still on starts with the overlay.
C22_OverlayFailureDegrades ==
    /\ [](lastOp.op = "render_elements" /\ debug # None =>
              IF lastOp.ok THEN Head(lastOp.ret) = [element |-> "Egui"]
              ELSE lastOp.ret = ElementRenderElements)
    /\ [][lastOp'.op = "render_elements" => debug' = debug]_vars

\* A frame of a decorated stack whose overlay failed to render while debug
\* mode was on.
C22_FailedFrame ==
    /\ lastOp.op = "render_elements"
    /\ ~lastOp.ok
    /\ debug # None
    /\ kind = "Stack"
    /\ header # None
    /\ Len(lastOp.ret) = 2

\* C23: debug mode is on exactly from set_debug(true) to set_debug(false); the
\* sequence render_elements returns is the overlay's element first, iff debug
\* mode is on and the overlay rendered, then what the wrapped element renders,
\* in its order; with debug mode off it is exactly that.
C23_OverlayThenElement ==
    /\ lastOp.op = "set_debug" => (debug # None <=> lastOp.arg)
    /\ lastOp.op = "render_elements" =>
          LET overlay == debug # None /\ lastOp.ok
              n == IF overlay THEN 1 ELSE 0
          IN  /\ Len(lastOp.ret) = n + Len(ElementRenderElements)
              /\ overlay => lastOp.ret[1] = [element |-> "Egui"]
              /\ \A i \in DOMAIN ElementRenderElements :
                    lastOp.ret[n + i] = ElementRenderElements[i]

\* A frame of a decorated window with the overlay rendered: three elements.
C23_OverlayFirstOfThree ==
    /\ lastOp.op = "render_elements"
    /\ lastOp.ok
    /\ debug # None
    /\ header # None
    /\ Len(lastOp.ret) = 3
    /\ lastOp.ret[3].element = "Content"

\* C24: when the wrapped element's handler runs for a pointer enter or motion
\* of seat S, cursor_position(S) already gives the event's location, and when
\* it runs for a pointer leave of S, cursor_position(S) already gives None: the
\* map is written before the event is forwarded.
C24_MapWrittenBeforeForward ==
    /\ lastOp.op \in {"pointer_enter", "pointer_motion"} =>
          /\ outbox # {}
          /\ \A m \in outbox : m.seat = lastOp.seat /\ m.cursor = Some(lastOp.location)
    /\ lastOp.op = "pointer_leave" =>
          /\ outbox # {}
          /\ \A m \in outbox : m.seat = lastOp.seat /\ m.cursor = None

\* A motion of the only seat inside, forwarded with its new location.
C24_MotionSeenNew ==
    /\ lastOp.op = "pointer_motion"
    /\ lastOp.location = 2
    /\ \E m \in outbox : m.event = "pointer_motion" /\ m.cursor = Some(2)
    /\ inside = {lastOp.seat}

\* C25: min_size() and max_size() on a Stack without tabs both end in a panic
\* and return no size, (0, 0) included; on a Stack with a tab neither panics.
C25_EmptyStackFatal ==
    (lastOp.op \in {"min_size", "max_size"} /\ kind = "Stack") =>
        (lastOp.ret.panic <=> tabs = <<>>)

\* max_size() was called on a Stack without tabs.
C25_MaxSizeOnEmpty ==
    /\ lastOp.op = "max_size"
    /\ kind = "Stack"
    /\ tabs = <<>>
    /\ lastOp.ret = Panic

\* The content origin: (0, header height), or (0, 0) without a header.
ContentOrigin == [x |-> 0, y |-> IF header = None THEN 0 ELSE header[1]]

\* C26: active_window_offset() is the rectangle at the content origin with
\* the size of the active window's geometry, and windows() yields one pair for
\* each tab of a Stack, in order, or one pair for a Single, each with the
\* content origin as its offset.
C26_ContentOrigin ==
    /\ lastOp.op = "active_window_offset" =>
          /\ lastOp.ret.loc = ContentOrigin
          /\ lastOp.ret.size = geometry[ActiveToplevel]
    /\ lastOp.op = "windows" =>
          /\ Len(lastOp.ret) = IF kind = "Stack" THEN Len(tabs) ELSE 1
          /\ \A i \in DOMAIN lastOp.ret :
                lastOp.ret[i] = <<tabs[i], ContentOrigin>>

\* active_window_offset() on a decorated stack whose active tab is not the
\* first and has a geometry of its own.
C26_DecoratedStackOffset ==
    /\ lastOp.op = "active_window_offset"
    /\ kind = "Stack"
    /\ header # None
    /\ active # tabs[1]
    /\ geometry[active] # geometry[tabs[1]]
    /\ lastOp.ret.loc.y > 0

\* What is_tiled() would return now.
TiledNow == "TiledLeft" \in current[ActiveToplevel]

\* C27: is_tiled() returns the tiled-left flag of the active window's
\* acknowledged state and nothing else. On a Single, no operation but a
\* client's acknowledgement changes what it would return, and the
\* acknowledgement of a configure that carries the flag as the last set_tiled
\* left it makes it return that flag.
C27_TiledIsAcknowledged ==
    /\ [](lastOp.op = "is_tiled" => (lastOp.ret <=> TiledNow))
    /\ [][(kind = "Window" /\ lastOp'.op # "client_ack") => (TiledNow' <=> TiledNow)]_vars
    /\ [][(/\ kind = "Window"
           /\ lastOp'.op = "client_ack"
           /\ configured[tabs[1]] # None
           /\ ("TiledLeft" \in configured[tabs[1]][1]
                  <=> "TiledLeft" \in pending[tabs[1]]))
             => (TiledNow' <=> "TiledLeft" \in pending[tabs[1]])]_vars

\* is_tiled() returned false on a Single after set_tiled(true), while the
\* configure carrying the four tiled states was still unacknowledged.
C27_StillUntiled ==
    /\ lastOp.op = "is_tiled"
    /\ kind = "Window"
    /\ ~lastOp.ret
    /\ TiledStates \subseteq pending[tabs[1]]
    /\ configured[tabs[1]] # None
    /\ TiledStates \subseteq configured[tabs[1]][1]

\* C28: for each of the four shared states X, is_X() returns true while the
\* active window's acknowledged state contains X, whatever set_X(false) did to
\* the pending one. A configure() sent while no constituent's pending state
\* contains X leaves no configure with X in flight; the acknowledgement of a
\* configure without X removes X from the acknowledged state; and is_X() returns
\* false once neither state of the active window contains X.
C28_ClearedOnceAcknowledged ==
    /\ [](\A x \in SharedStates :
            lastOp.op = QueryOf[x] =>
                /\ x \in current[ActiveToplevel] => lastOp.ret
                /\ (x \notin current[ActiveToplevel] /\ x \notin pending[ActiveToplevel])
                      => ~lastOp.ret)
    /\ [][lastOp'.op = "configure" =>
            \A x \in SharedStates : \A t \in TabSet :
                x \notin pending[t] => x \notin ServerState(t)']_vars
    /\ [][lastOp'.op = "client_ack" =>
            \A x \in SharedStates :
                LET t == lastOp'.window
                IN  (configured[t] # None /\ x \notin configured[t][1])
                       => x \notin current'[t]]_vars

\* is_X() returned true after set_X(false): the active window had acknowledged
\* X before, and the configure without X is yet to be sent.
C28_StillSetAfterUnset ==
    \E x \in SharedStates :
        /\ lastOp.op = QueryOf[x]
        /\ lastOp.ret
        /\ x \in current[ActiveToplevel]
        /\ x \notin pending[ActiveToplevel]
        /\ configured[ActiveToplevel] = None

\* The axes of a size.
Axes == {"w", "h"}

\* C29: on an axis where every tab of a Stack declares maximum 0, max_size()
\* returns what min_size() returns there, which is positive as soon as one tab
\* declares a positive minimum on that axis.
C29_UnconstrainedAxisIsMin ==
    (lastOp.op = "max_size" /\ kind = "Stack") =>
        \A axis \in Axes :
            (\A t \in TabSet : attrs_max_size[t][axis] = 0) =>
                /\ lastOp.ret.val[axis] = min_size.val[axis]
                /\ (\E t \in TabSet : attrs_min_size[t][axis] > 0)
                      => lastOp.ret.val[axis] > 0

\* max_size() of a one-tab Stack whose tab declares a minimum and no maximum:
\* not what the Single wrapping the same window returns.
C29_OneTabStackDiffers ==
    /\ lastOp.op = "max_size"
    /\ kind = "Stack"
    /\ Len(tabs) = 1
    /\ attrs_max_size[tabs[1]] = [w |-> 0, h |-> 0]
    /\ attrs_min_size[tabs[1]].w > 0
    /\ lastOp.ret.val = attrs_min_size[tabs[1]]
    /\ lastOp.ret # WindowMaxSize

\* The orders n tabs can be put in.
TabOrders ==
    [n \in 1..MaxTabs |->
        {p \in [1..n -> 1..n] : \A i, j \in 1..n : p[i] = p[j] => i = j}]

\* C30: what min_size() and max_size() return on a Stack is what they would
\* return with the same tabs in any other order; the active tab plays no part.
C30_TabOrderIrrelevant ==
    (lastOp.op \in {"min_size", "max_size"} /\ kind = "Stack") =>
        \A p \in TabOrders[Len(tabs)] :
            LET ws == [i \in DOMAIN tabs |-> tabs[p[i]]]
            IN  lastOp.ret =
                    IF lastOp.op = "min_size"
                    THEN StackMinSize(MinSizesOf(ws))
                    ELSE StackMaxSize(MinSizesOf(ws), MaxSizesOf(ws))

\* max_size() on a Stack of three tabs, the active one not being the first: the
\* first and the last declare different maximum widths, and the smaller one,
\* the last tab's, is returned.
C30_LastTabDecides ==
    /\ lastOp.op = "max_size"
    /\ kind = "Stack"
    /\ Len(tabs) = 3
    /\ active # tabs[1]
    /\ attrs_max_size[tabs[1]].w > attrs_max_size[tabs[3]].w
    /\ attrs_max_size[tabs[3]].w > 0
    /\ lastOp.ret.val.w = attrs_max_size[tabs[3]].w

\* C31: set_X(b), for each of the four shared states X, changes at most flag X
\* of the pending states: every other pending flag of every toplevel, the
\* configures in flight, the acknowledged states, the element with its active
\* tab, the cursor map and the other auxiliary fields stay as they were, and
\* no call goes out. A second set_X(b) right after the first changes nothing.
C31_SetterFrame ==
    /\ [][\A x \in SharedStates :
            lastOp'.op = SetterOf[x] =>
                /\ \A t \in Toplevels : pending'[t] \ {x} = pending[t] \ {x}
                /\ configured' = configured
                /\ current' = current
                /\ element' = element
                /\ last_cursor_position' = last_cursor_position
                /\ aux' = aux
                /\ outbox' = {}]_vars
    /\ [][\A x \in SharedStates :
            (lastOp.op = SetterOf[x] /\ lastOp'.op = SetterOf[x]
                /\ lastOp'.arg = lastOp.arg) => pending' = pending]_vars

\* set_X(false) was called on a Stack of several tabs after every tab had
\* acknowledged X and another state: the other state is still pending on every
\* tab, X is still acknowledged, and no configure is in flight.
C31_OtherFlagsKept ==
    \E x \in SharedStates :
        /\ lastOp.op = SetterOf[x]
        /\ ~lastOp.arg
        /\ kind = "Stack"
        /\ Len(tabs) > 1
        /\ \A t \in TabSet :
              /\ x \notin pending[t]
              /\ pending[t] # {}
              /\ x \in current[t]
              /\ configured[t] = None

\* Handles made by clone() from one conversion, directly or through clones.
ClonesOfOne(h, g) == Held(h).origin = Held(g).origin

\* C32: clones of a handle read the same contents behind every auxiliary
\* field. cursor_position on a clone returns the location a pointer enter or
\* motion just stored through another, and nothing after a leave; a layout
\* field read through a clone is the value just written through another.
\* Equality is that of the wrapped elements, so clones are equal, and handles
\* on equal elements hash alike.
C32_ClonesShare ==
    /\ [](\A h, g \in Holding :
            ClonesOfOne(h, g) => \A f \in Locks : Deref(h, f) = Deref(g, f))
    /\ [][(/\ lastOp.op \in {"pointer_enter", "pointer_motion", "pointer_leave"}
           /\ lastOp'.op = "cursor_position"
           /\ lastOp'.seat = lastOp.seat
           /\ ClonesOfOne(lastOp.handle, lastOp'.handle))
             => lastOp'.ret = IF lastOp.op = "pointer_leave" THEN None
                              ELSE Some(lastOp.location)]_vars
    /\ [][(/\ lastOp.op = "layout_store"
           /\ lastOp'.op = "layout_load"
           /\ lastOp'.field = lastOp.field
           /\ ClonesOfOne(lastOp.handle, lastOp'.handle))
             => lastOp'.ret = lastOp.value]_vars
    /\ [](lastOp.op = "eq" =>
            /\ lastOp.ret <=> Held(lastOp.handle).element = Held(lastOp.other).element
            /\ ClonesOfOne(lastOp.handle, lastOp.other) => lastOp.ret)
    /\ [](lastOp.op = "hash" =>
            \A g \in Holding :
                Held(g).element = Held(lastOp.handle).element
                    => hash(g) = lastOp.ret)

\* A pointer entered through a clone of the converted handle: the converted
\* handle's map holds the seat's location too, while a handle from another
\* conversion of the same element has an empty map.
C32_EnterSeenThroughOriginal ==
    /\ lastOp.op = "pointer_enter"
    /\ lastOp.handle # Mapper
    /\ ClonesOfOne(lastOp.handle, Mapper)
    /\ lastOp.seat \in DOMAIN Deref(Mapper, "last_cursor_position")
    /\ Deref(Mapper, "last_cursor_position")[lastOp.seat] = lastOp.location
    /\ \E k \in Holding :
          /\ ~ClonesOfOne(k, Mapper)
          /\ Held(k).element = Held(Mapper).element
          /\ Deref(k, "last_cursor_position") = << >>

====
